---------------------------- MODULE Spec2Model ----------------------------
(***************************************************************************)
(* KnowledgeOps platform: the vector index (app/services/vector_service.py)*)
(* the generator with fallback (app/services/llm_service.py), the chunker  *)
(* (app/services/document_parser_backup.py) and the query and upload       *)
(* endpoints (main_simple.py), as state machines.                          *)
(*                                                                         *)
(* Text is a sequence of one-character strings.  The ChromaDB store is the *)
(* one collection named "documents": NoCollection when the name is not     *)
(* registered, else a record with the collection's uuid and its items in   *)
(* insertion order.  A VectorService object holds the uuid of the          *)
(* collection object it was given (self.collection).                       *)
(***************************************************************************)
EXTENDS Integers, Sequences, FiniteSets, TLC

(***************************************************************************)
(* Bounds of the model.                                                    *)
(***************************************************************************)
MaxBatch == 2
MaxTextLen == 7
MaxChunkSize == 5
MaxChunks == MaxTextLen + 1
MaxUploads == 2

(***************************************************************************)
(* The parameters of the chunking test, test_document_parsing.py line 16,  *)
(* and the length of the texts chunked with them.                          *)
(***************************************************************************)
ScenarioChunkSize == 100
ScenarioOverlap == 20
ScenarioTextLen == 230

(***************************************************************************)
(* Program constants.                                                      *)
(***************************************************************************)
IdPrefixLen == 100

Min(a, b) == IF a < b THEN a ELSE b

(***************************************************************************)
(* Python text[:n].                                                        *)
(***************************************************************************)
Take(s, n) == SubSeq(s, 1, Min(n, Len(s)))

(***************************************************************************)
(* Chunk contents the callers index.  Chunks are longer than the 100       *)
(* characters the id is taken from: LongA and LongB are 101 characters     *)
(* long and differ in the last one only.  The metadata of a chunk carries  *)
(* its number within its file (process_documents.py lines 40-46), so a     *)
(* batch is decided by its sequence of contents.                           *)
(***************************************************************************)
LongA == [i \in 1..(IdPrefixLen + 1) |-> IF i <= IdPrefixLen THEN "x" ELSE "a"]
LongB == [i \in 1..(IdPrefixLen + 1) |-> IF i <= IdPrefixLen THEN "x" ELSE "b"]
Texts == {LongA, LongB}

Doc(text, chunk_index) ==
    [content |-> text,
     metadata |-> [source_file |-> "f1", chunk_index |-> chunk_index]]
Batches ==
    UNION {{[i \in 1..n |-> Doc(ts[i], i - 1)] : ts \in [1..n -> Texts]} :
              n \in 1..MaxBatch}

(***************************************************************************)
(* str(i) for the batch positions, and the string the id is hashed from:   *)
(* f"{text[:100]}_{i}".  md5 is taken to be collision free, so a digest is *)
(* the hashed string under a tag.                                          *)
(***************************************************************************)
Digit(i) == CASE i = 0 -> "0" [] i = 1 -> "1" [] i = 2 -> "2" [] i = 3 -> "3"
              [] i = 4 -> "4" [] i = 5 -> "5" [] i = 6 -> "6" [] i = 7 -> "7"
              [] i = 8 -> "8" [] i = 9 -> "9"
RECURSIVE Str(_)
Str(i) == IF i < 10 THEN <<Digit(i)>> ELSE Str(i \div 10) \o <<Digit(i % 10)>>
Md5(s) == <<"md5", s>>
DocId(text, i) == Md5(Take(text, IdPrefixLen) \o <<"_">> \o Str(i))

(***************************************************************************)
(* add_documents, lines 45-58: the three parallel lists built from the     *)
(* batch; position i of the code is position i + 1 here.  A document is a  *)
(* dict: doc.get('content', '') and doc.get('metadata', {}) give the       *)
(* default when the dict has no such key.                                  *)
(***************************************************************************)
EmptyDict == [k \in {} |-> k]
DocContent(doc) == IF "content" \in DOMAIN doc THEN doc.content ELSE <<>>
DocMetadata(doc) == IF "metadata" \in DOMAIN doc THEN doc.metadata ELSE EmptyDict

BatchTexts(documents) == [i \in 1..Len(documents) |-> DocContent(documents[i])]
BatchMetadatas(documents) == [i \in 1..Len(documents) |-> DocMetadata(documents[i])]
BatchIds(documents) ==
    [i \in 1..Len(documents) |-> DocId(DocContent(documents[i]), i - 1)]


(***************************************************************************)
(* SentenceTransformer.encode and the cosine space of the collection.  An  *)
(* embedding is a direction in degrees, decided by the text's last         *)
(* character; the distance of two directions is 1 - cos of their angle, in *)
(* tenths (ChromaDB's "cosine" space ranges over 0 .. 2).                  *)
(***************************************************************************)
ScoreScale == 10
Embedding(text) ==
    IF text = <<>> THEN 180
    ELSE CASE text[Len(text)] = "a" -> 0
           [] text[Len(text)] = "b" -> 90
           [] OTHER -> 180
CosineDistance(e1, e2) ==
    LET d == IF e1 >= e2 THEN e1 - e2 ELSE e2 - e1
    IN  CASE d = 0 -> 0 [] d = 90 -> ScoreScale [] OTHER -> 2 * ScoreScale

(***************************************************************************)
(* The ChromaDB store.  Every operation gives [raised, ...]: raised is     *)
(* TRUE when the library call throws.  A collection object whose uuid is   *)
(* no longer the registered one refers to a deleted collection, and every  *)
(* call through it throws.                                                 *)
(***************************************************************************)
NoCollection == [uuid |-> -1, items |-> <<>>]
EmptyCollection(u) == [uuid |-> u, items |-> <<>>]
Exists(coll, u) == coll # NoCollection /\ coll.uuid = u

ItemIds(coll) == {coll.items[k].id : k \in 1..Len(coll.items)}
ItemDocuments(coll) == {coll.items[k].document : k \in 1..Len(coll.items)}

RECURSIVE AppendNew(_, _, _, _, _)
AppendNew(items, ids, texts, metas, k) ==
    IF k > Len(ids) THEN items
    ELSE IF \E j \in 1..Len(items) : items[j].id = ids[k]
         THEN AppendNew(items, ids, texts, metas, k + 1)
         ELSE AppendNew(Append(items, [id |-> ids[k], document |-> texts[k],
                                       metadata |-> metas[k]]),
                        ids, texts, metas, k + 1)

(* collection.add: an id already in the collection is rejected (older      *)
(* releases throw, policy "raise") or left as it is (policy "skip").       *)
CollectionAdd(coll, u, ids, texts, metas, policy, fault) ==
    IF \/ fault
       \/ ~Exists(coll, u)
       \/ Len(ids) = 0
       \/ policy = "raise" /\ \E k \in 1..Len(ids) : ids[k] \in ItemIds(coll)
    THEN [raised |-> TRUE, coll |-> coll]
    ELSE [raised |-> FALSE,
          coll |-> [coll EXCEPT !.items = AppendNew(coll.items, ids, texts, metas, 1)]]

CollectionCount(coll, u, fault) ==
    IF fault \/ ~Exists(coll, u)
    THEN [raised |-> TRUE, count |-> 0]
    ELSE [raised |-> FALSE, count |-> Len(coll.items)]

(* The positions of the items in ascending distance from the query, ties   *)
(* in insertion order.                                                     *)
Closer(items, e, i, j) ==
    LET di == CosineDistance(e, Embedding(items[i].document))
        dj == CosineDistance(e, Embedding(items[j].document))
    IN  di < dj \/ (di = dj /\ i < j)
Ranking(items, e) ==
    [r \in 1..Len(items) |->
        CHOOSE i \in 1..Len(items) :
            Cardinality({j \in 1..Len(items) : Closer(items, e, j, i)}) = r - 1]

CollectionQuery(coll, u, e, n_results, fault) ==
    IF fault \/ ~Exists(coll, u) \/ n_results <= 0
    THEN [raised |-> TRUE, documents |-> <<>>, metadatas |-> <<>>, distances |-> <<>>]
    ELSE LET rk == Take(Ranking(coll.items, e), n_results)
         IN  [raised |-> FALSE,
              documents |-> [k \in 1..Len(rk) |-> coll.items[rk[k]].document],
              metadatas |-> [k \in 1..Len(rk) |-> coll.items[rk[k]].metadata],
              distances |-> [k \in 1..Len(rk) |->
                               CosineDistance(e, Embedding(coll.items[rk[k]].document))]]

(* client.delete_collection("documents") and client.create_collection.     *)
DeleteCollection(coll, fault) ==
    IF fault \/ coll = NoCollection
    THEN [raised |-> TRUE, coll |-> coll]
    ELSE [raised |-> FALSE, coll |-> NoCollection]
CreateCollection(coll, u, fault) ==
    IF fault \/ coll # NoCollection
    THEN [raised |-> TRUE, coll |-> coll]
    ELSE [raised |-> FALSE, coll |-> EmptyCollection(u)]

(***************************************************************************)
(* search_similar, lines 100-110: the formatted results.                   *)
(***************************************************************************)
(* A formatting that hands on the distance as the score.                   *)
FormatResultsRawDistance(q) ==
    [k \in 1..Len(q.documents) |->
        [content |-> q.documents[k], metadata |-> q.metadatas[k],
         score |-> q.distances[k]]]

FormatResults(q) ==
    [k \in 1..Len(q.documents) |->
        [content |-> q.documents[k], metadata |-> q.metadatas[k],
         score |-> ScoreScale - q.distances[k]]]

(***************************************************************************)
(* What each method returns: the value of its try block, or the value of   *)
(* its except branch when a call inside the try block threw.               *)
(***************************************************************************)
AddOutcome(raised) == [ok |-> ~raised, propagated |-> FALSE]
SearchOutcome(q) ==
    [results |-> IF q.raised THEN <<>> ELSE FormatResults(q), propagated |-> FALSE]
(* get_stats without its except branch.                                    *)
StatsOutcomeNoCatch(c) ==
    [stats |-> [total_chunks |-> IF c.raised THEN 0 ELSE c.count,
                status |-> "operational"],
     propagated |-> c.raised]

StatsOutcome(c) ==
    [stats |-> IF c.raised THEN [total_chunks |-> 0, status |-> "error"]
               ELSE [total_chunks |-> c.count, status |-> "operational"],
     propagated |-> FALSE]
ClearOutcome(raised) == [ok |-> ~raised, propagated |-> FALSE]


(***************************************************************************)
(* State.                                                                  *)
(*   collection  the "documents" collection of the persistent store        *)
(*   policy      how this ChromaDB release treats an add of an existing id *)
(*   handle      self.collection of each VectorService object              *)
(*   call        each caller's current or last VectorService method call   *)
(*   trace       what the calls on one object returned since its latest    *)
(*               clear_all                                                 *)
(*   svc         which of the server's services exist: llm_service of      *)
(*               main_simple.py, and the groq_client and vector_service of *)
(*               the LLMService                                            *)
(*   req         each query request: where its handler stands, its locals  *)
(*   loop        the request whose handler the event loop is running, or 0 *)
(*   resp        the response the event loop last handed back, with what   *)
(*               its handler was given and did                             *)
(*   chunker     a call of DocumentParser.chunk_text: its arguments, its   *)
(*               locals start and chunks, and where it stands              *)
(*   upload      the upload endpoint: the stored files, the handler's      *)
(*               locals and its last response                              *)
(***************************************************************************)
VARIABLES collection, policy, handle, call, trace, svc, req, loop, resp, chunker,
          upload

indexVars == <<collection, policy, handle, call>>
serverVars == <<svc, req, loop, resp>>
vars ==
    <<collection, policy, handle, call, trace, svc, req, loop, resp, chunker, upload>>

(* The module-level vector_service of main_simple.py, the one inside the   *)
(* LLMService, and the vs of a script (process_documents.py), all on the   *)
(* same persist_directory.                                                 *)
Handles == {"main", "llm", "vs"}

(* The threads of control that call into a VectorService: the server's     *)
(* event loop and a script process.                                        *)
Callers == {"server", "script"}

(* The chunks of a batch differ pairwise in content.                       *)
DistinctContent(documents) ==
    \A i, j \in 1..Len(documents) :
        i # j => DocContent(documents[i]) # DocContent(documents[j])

NoStats == [total_chunks |-> 0, status |-> "none"]
NoCall ==
    [op |-> "none", pc |-> "idle", h |-> "main", documents |-> <<>>,
     n |-> 0, distinct |-> FALSE, query |-> <<>>, max_docs |-> 0, ok |-> FALSE, results |-> <<>>,
     stats |-> NoStats, propagated |-> FALSE, errored |-> FALSE,
     fault |-> FALSE, before |-> NoCollection, half |-> FALSE]

Callable(c) == call[c].pc \in {"idle", "returned"}

(* The uuid of a newly created collection: one that no object holds.      *)
FreshUuid ==
    CHOOSE u \in 0..Cardinality(Handles) : \A h \in Handles : handle[h] # u

(* Some clear_all has deleted the collection and not yet recreated it.     *)
HalfCleared == \E d \in Callers : call[d].op = "clear_all" /\ call[d].pc = "create"
Returned(c, op) == call[c].op = op /\ call[c].pc = "returned"

(* VectorService.__init__ of every object ran get_or_create_collection on  *)
(* the same store, so all start on the one collection.                     *)
InitIndex(items) ==
    /\ collection = [uuid |-> 0, items |-> items]
    /\ policy \in {"skip", "raise"}
    /\ handle = [h \in Handles |-> 0]
    /\ call = [c \in Callers |-> NoCall]

(***************************************************************************)
(* add_documents: the lists are built and the texts embedded (lines 38-61),*)
(* then the batch is added to the collection (lines 63-76).                *)
(***************************************************************************)
AddCall(c, h, documents) ==
    /\ Callable(c)
    /\ \E fault \in BOOLEAN :
         LET out == AddOutcome(fault)
         IN  call' = [call EXCEPT ![c] =
                 [NoCall EXCEPT !.op = "add_documents",
                                !.pc = IF fault THEN "returned" ELSE "store",
                                !.h = h,
                                !.documents = IF fault THEN <<>> ELSE documents,
                                !.n = Len(documents),
                                !.distinct = DistinctContent(documents),
                                !.ok = out.ok,
                                !.propagated = out.propagated,
                                !.errored = fault,
                                !.fault = fault]]
    /\ UNCHANGED <<collection, policy, handle>>

AddStore(c) ==
    /\ call[c].op = "add_documents" /\ call[c].pc = "store"
    /\ \E fault \in BOOLEAN :
         LET docs == call[c].documents
             r == CollectionAdd(collection, handle[call[c].h], BatchIds(docs),
                                BatchTexts(docs), BatchMetadatas(docs), policy, fault)
             out == AddOutcome(r.raised)
         IN  /\ collection' = r.coll
             /\ call' = [call EXCEPT ![c].pc = "returned",
                                     ![c].documents = <<>>,
                                     ![c].ok = out.ok,
                                     ![c].propagated = out.propagated,
                                     ![c].errored = r.raised,
                                     ![c].fault = fault,
                                     ![c].half = HalfCleared]
    /\ UNCHANGED <<policy, handle>>

(***************************************************************************)
(* search_similar: the query is embedded (lines 78-92), then the           *)
(* collection is queried and the results formatted (lines 94-114).         *)
(***************************************************************************)
SearchCall(c, h, query, max_docs) ==
    /\ Callable(c)
    /\ \E fault \in BOOLEAN :
         LET out == SearchOutcome([raised |-> TRUE])
         IN  call' = [call EXCEPT ![c] =
                 [NoCall EXCEPT !.op = "search_similar",
                                !.pc = IF fault THEN "returned" ELSE "query",
                                !.h = h,
                                !.query = query,
                                !.max_docs = max_docs,
                                !.results = out.results,
                                !.propagated = IF fault THEN out.propagated ELSE FALSE,
                                !.errored = fault,
                                !.fault = fault]]
    /\ UNCHANGED <<collection, policy, handle>>

SearchQuery(c) ==
    /\ call[c].op = "search_similar" /\ call[c].pc = "query"
    /\ \E fault \in BOOLEAN :
         LET q == CollectionQuery(collection, handle[call[c].h],
                                  Embedding(call[c].query), call[c].max_docs, fault)
             out == SearchOutcome(q)
         IN  call' = [call EXCEPT ![c].pc = "returned",
                                  ![c].results = out.results,
                                  ![c].propagated = out.propagated,
                                  ![c].errored = q.raised,
                                  ![c].fault = fault,
                                  ![c].half = HalfCleared]
    /\ UNCHANGED <<collection, policy, handle>>

(***************************************************************************)
(* get_stats (lines 116-134): one call of collection.count().              *)
(***************************************************************************)
GetStats(c, h) ==
    /\ Callable(c)
    /\ \E fault \in BOOLEAN :
         LET cnt == CollectionCount(collection, handle[h], fault)
             out == StatsOutcome(cnt)
         IN  call' = [call EXCEPT ![c] =
                 [NoCall EXCEPT !.op = "get_stats",
                                !.pc = "returned",
                                !.h = h,
                                !.stats = out.stats,
                                !.propagated = out.propagated,
                                !.errored = cnt.raised,
                                !.fault = fault,
                                !.half = HalfCleared]]
    /\ UNCHANGED <<collection, policy, handle>>

(***************************************************************************)
(* clear_all: delete_collection (lines 136-142), then create_collection    *)
(* and the assignment to self.collection (lines 143-151).  before is the   *)
(* collection as the call found it.                                        *)
(***************************************************************************)
ClearDelete(c, h) ==
    /\ Callable(c)
    /\ \E fault \in BOOLEAN :
         LET r == DeleteCollection(collection, fault)
             out == ClearOutcome(r.raised)
         IN  /\ collection' = r.coll
             /\ call' = [call EXCEPT ![c] =
                    [NoCall EXCEPT !.op = "clear_all",
                                   !.pc = IF r.raised THEN "returned" ELSE "create",
                                   !.h = h,
                                   !.ok = out.ok,
                                   !.propagated = out.propagated,
                                   !.errored = r.raised,
                                   !.fault = fault,
                                   !.before = collection]]
    /\ UNCHANGED <<policy, handle>>

(* clear_all that recreates the collection and keeps the old               *)
(* self.collection.                                                        *)
ClearCreateKeepsHandle(c) ==
    /\ call[c].op = "clear_all" /\ call[c].pc = "create"
    /\ \E fault \in BOOLEAN :
         LET r == CreateCollection(collection, FreshUuid, fault)
             out == ClearOutcome(r.raised)
         IN  /\ collection' = r.coll
             /\ call' = [call EXCEPT ![c].pc = "returned",
                                     ![c].ok = out.ok,
                                     ![c].propagated = out.propagated,
                                     ![c].errored = r.raised,
                                     ![c].fault = fault]
    /\ UNCHANGED <<policy, handle>>

ClearCreate(c) ==
    /\ call[c].op = "clear_all" /\ call[c].pc = "create"
    /\ \E fault \in BOOLEAN :
         LET r == CreateCollection(collection, FreshUuid, fault)
             out == ClearOutcome(r.raised)
         IN  /\ collection' = r.coll
             /\ handle' = IF r.raised THEN handle
                          ELSE [handle EXCEPT ![call[c].h] = FreshUuid]
             /\ call' = [call EXCEPT ![c].pc = "returned",
                                     ![c].ok = out.ok,
                                     ![c].propagated = out.propagated,
                                     ![c].errored = r.raised,
                                     ![c].fault = fault]
    /\ UNCHANGED policy

(***************************************************************************)
(* Text helpers: str.lower(), the substring test "w in s", str.strip().    *)
(***************************************************************************)
Lower(ch) ==
    CASE ch = "A" -> "a" [] ch = "B" -> "b" [] ch = "C" -> "c" [] ch = "D" -> "d"
      [] ch = "E" -> "e" [] ch = "F" -> "f" [] ch = "G" -> "g" [] ch = "H" -> "h"
      [] ch = "I" -> "i" [] ch = "J" -> "j" [] ch = "K" -> "k" [] ch = "L" -> "l"
      [] ch = "M" -> "m" [] ch = "N" -> "n" [] ch = "O" -> "o" [] ch = "P" -> "p"
      [] ch = "Q" -> "q" [] ch = "R" -> "r" [] ch = "S" -> "s" [] ch = "T" -> "t"
      [] ch = "U" -> "u" [] ch = "V" -> "v" [] ch = "W" -> "w" [] ch = "X" -> "x"
      [] ch = "Y" -> "y" [] ch = "Z" -> "z" [] OTHER -> ch
LowerText(s) == [i \in 1..Len(s) |-> Lower(s[i])]
Contains(s, w) == \E i \in 1..(Len(s) - Len(w) + 1) : SubSeq(s, i, i + Len(w) - 1) = w

IsSpace(ch) == ch \in {" ", "\t", "\n", "\r", "\f"}
RECURSIVE LStrip(_)
LStrip(s) == IF s # <<>> /\ IsSpace(Head(s)) THEN LStrip(Tail(s)) ELSE s
RECURSIVE RStrip(_)
RStrip(s) ==
    IF s # <<>> /\ IsSpace(s[Len(s)]) THEN RStrip(SubSeq(s, 1, Len(s) - 1)) ELSE s
(* A validation that does not strip the question.                          *)
StripNothing(s) == s
Strip(s) == RStrip(LStrip(s))

(***************************************************************************)
(* DocumentParser.chunk_text (document_parser_backup.py lines 215-262).    *)
(* Positions are Python's: character i of the code is text[i + 1] here.    *)
(* A slice bound below zero counts from the end of the text, and bounds    *)
(* are clipped to the text, as in text[start:end] and text.rfind.          *)
(***************************************************************************)
Max(a, b) == IF a >= b THEN a ELSE b
PyIndex(i, n) == IF i < 0 THEN Max(i + n, 0) ELSE Min(i, n)
PySlice(text, a, b) ==
    LET lo == PyIndex(a, Len(text))
        hi == PyIndex(b, Len(text))
    IN  IF lo < hi THEN SubSeq(text, lo + 1, hi) ELSE <<>>
RFindSpace(text, a, b) ==
    LET lo == PyIndex(a, Len(text))
        hi == PyIndex(b, Len(text))
        found == {i \in lo..(hi - 1) : text[i + 1] = " "}
    IN  IF found = {} THEN -1 ELSE CHOOSE i \in found : \A j \in found : j <= i
WordCount(s) ==
    Cardinality({i \in 1..Len(s) : ~IsSpace(s[i]) /\ (i = 1 \/ IsSpace(s[i - 1]))})

(* A window one character longer than chunk_size.                          *)
WindowEndOneMore(text, start, chunk_size) ==
    LET end == start + chunk_size + 1
        word_boundary == RFindSpace(text, start, end)
    IN  IF end < Len(text) /\ word_boundary > start + (chunk_size \div 2)
        THEN word_boundary
        ELSE end

(* Lines 236-243: the end of the window that starts at start.              *)
WindowEnd(text, start, chunk_size) ==
    LET end == start + chunk_size
        word_boundary == RFindSpace(text, start, end)
    IN  IF end < Len(text) /\ word_boundary > start + (chunk_size \div 2)
        THEN word_boundary
        ELSE end

(* A next start that steps back by twice the overlap.                      *)
NextStartTwiceOverlap(text, end, overlap) ==
    IF end < Len(text) THEN end - 2 * overlap ELSE Len(text)

(* A next start that skips the character at the window's end.              *)
NextStartSkipsOne(text, end, overlap) ==
    IF end < Len(text) THEN end - overlap + 1 ELSE Len(text)

(* Line 259: the start of the next window.                                 *)
NextStart(text, end, overlap) == IF end < Len(text) THEN end - overlap ELSE Len(text)

(* Lines 245-256: the chunk of the window, appended when it is not blank.  *)
Chunk(chunk_id, chunk_text, start, end) ==
    [chunk_id |-> chunk_id, text |-> chunk_text, start_pos |-> start,
     end_pos |-> end, length |-> Len(chunk_text), word_count |-> WordCount(chunk_text)]
(* Chunks put in front of the list instead of at its end.                  *)
EmittedInFront(chunks, text, start, end) ==
    LET chunk_text == Strip(PySlice(text, start, end))
    IN  IF chunk_text # <<>>
        THEN <<Chunk(Len(chunks) + 1, chunk_text, start, end)>> \o chunks
        ELSE chunks

Emitted(chunks, text, start, end) ==
    LET chunk_text == Strip(PySlice(text, start, end))
    IN  IF chunk_text # <<>>
        THEN Append(chunks, Chunk(Len(chunks) + 1, chunk_text, start, end))
        ELSE chunks

NoChunker == [pc |-> "idle"]

(* Lines 227-232.                                                          *)
ChunkEnter ==
    /\ chunker.pc = "call"
    /\ chunker' = IF Strip(chunker.text) = <<>>
                  THEN [chunker EXCEPT !.pc = "done"]
                  ELSE [chunker EXCEPT !.pc = "loop"]
    /\ UNCHANGED <<indexVars, trace, serverVars, upload>>

(* One iteration of the while loop, lines 234-259.                         *)
ChunkStep ==
    /\ chunker.pc = "loop"
    /\ chunker.start < Len(chunker.text)
    /\ Len(chunker.chunks) < MaxChunks
    /\ LET end == WindowEnd(chunker.text, chunker.start, chunker.chunk_size)
       IN  chunker' = [chunker EXCEPT
               !.chunks = Emitted(@, chunker.text, chunker.start, end),
               !.start = NextStart(chunker.text, end, chunker.overlap)]
    /\ UNCHANGED <<indexVars, trace, serverVars, upload>>

(* Lines 234 and 261-262: the loop condition fails and the chunks are      *)
(* returned.                                                               *)
ChunkReturn ==
    /\ chunker.pc = "loop"
    /\ chunker.start >= Len(chunker.text)
    /\ chunker' = [chunker EXCEPT !.pc = "done"]
    /\ UNCHANGED <<indexVars, trace, serverVars, upload>>

(***************************************************************************)
(* upload_document (main_simple.py lines 270-353) with chunk_document      *)
(* (document_parser_backup.py lines 270-286).  A file is its name, its     *)
(* declared content type and its text.  upload is the endpoint's state:    *)
(* whether doc_parser and vector_service exist, the names of the files in  *)
(* the storage directory, the handler's locals and its last response.      *)
(***************************************************************************)
UploadChunkSize == 500
UploadOverlap == 50

UploadTxt ==
    [ProcessedAndIndexed |->
         <<"p", "r", "o", "c", "e", "s", "s", "e", "d", "_", "a", "n", "d", "_",
           "i", "n", "d", "e", "x", "e", "d">>,
     ProcessingFailed |->
         <<"u", "p", "l", "o", "a", "d", "e", "d", "_", "b", "u", "t", "_", "p",
           "r", "o", "c", "e", "s", "s", "i", "n", "g", "_", "f", "a", "i", "l",
           "e", "d", ":", " ">>,
     AwaitingIntegration |->
         <<"u", "p", "l", "o", "a", "d", "e", "d", "_", "a", "w", "a", "i", "t",
           "i", "n", "g", "_", "s", "e", "r", "v", "i", "c", "e", "_", "i", "n",
           "t", "e", "g", "r", "a", "t", "i", "o", "n">>,
     UploadError |->
         <<"U", "p", "l", "o", "a", "d", " ", "e", "r", "r", "o", "r", ":", " ">>]
TxtUnsupportedFileType ==
    <<"U", "n", "s", "u", "p", "p", "o", "r", "t", "e", "d", " ", "f", "i",
      "l", "e", " ", "t", "y", "p", "e", ":", " ">>

(* Lines 277-286: the type check, by content type and then by extension.   *)
RECURSIVE AfterLastDot(_)
AfterLastDot(s) ==
    IF \E i \in 1..Len(s) : s[i] = "." THEN AfterLastDot(Tail(s)) ELSE s
Extension(file) == AfterLastDot(LowerText(file.filename))
Suffix(file) ==
    IF \E i \in 2..Len(file.filename) : file.filename[i] = "."
    THEN <<".">> \o Extension(file) ELSE <<>>
Accepted(file) ==
    \/ file.content_type \in {"application/pdf", "application/docx", "text/plain"}
    \/ Extension(file) \in {<<"p", "d", "f">>, <<"t", "x", "t">>, <<"d", "o", "c", "x">>,
                           <<"d", "o", "c">>, <<"m", "d">>}

(* parse_document, lines 50-80, for the text formats: a suffix without a   *)
(* parser raises ValueError, a .txt file gives its stripped text.          *)
ParseRaises(file) ==
    Suffix(file) \notin {<<".", "p", "d", "f">>, <<".", "d", "o", "c", "x">>,
                         <<".", "t", "x", "t">>}
ParseError(file) == TxtUnsupportedFileType \o Suffix(file)
ParsedContent(file) == Strip(file.data)

(* chunk_text as a function of its arguments, for the arguments it returns *)
(* on: the loop of lines 234-259 from the window that starts at start.     *)
RECURSIVE ChunkLoop(_, _, _, _, _)
ChunkLoop(text, chunk_size, overlap, start, chunks) ==
    IF start < Len(text)
    THEN LET end == WindowEnd(text, start, chunk_size)
         IN  ChunkLoop(text, chunk_size, overlap, NextStart(text, end, overlap),
                       Emitted(chunks, text, start, end))
    ELSE chunks
ChunkText(text, chunk_size, overlap) ==
    IF Strip(text) = <<>> THEN <<>> ELSE ChunkLoop(text, chunk_size, overlap, 0, <<>>)

(* chunk_document, lines 270-286: the chunks with the file's description.  *)
ChunkDocument(file, chunk_size, overlap) ==
    LET chunks == ChunkText(ParsedContent(file), chunk_size, overlap)
    IN  [i \in 1..Len(chunks) |->
            [chunk_id |-> chunks[i].chunk_id, text |-> chunks[i].text,
             start_pos |-> chunks[i].start_pos, end_pos |-> chunks[i].end_pos,
             length |-> chunks[i].length, word_count |-> chunks[i].word_count,
             source_file |-> file.filename, file_type |-> Suffix(file),
             extraction_method |-> "text_file"]]

(* Lines 343-350.                                                          *)
UploadBody(file, chunks_created, processing_status) ==
    [message |-> "File uploaded successfully", filename |-> file.filename,
     chunks_created |-> chunks_created, file_size |-> Len(file.data),
     processing_status |-> processing_status,
     ready_for_queries |-> (chunks_created > 0)]
(* Line 353; e is what str() gives for the HTTPException of line 286,      *)
(* which depends on the release of the framework.                          *)
HttpErrorTexts ==
    {<<>>, <<"4", "0", "0", ":", " ", "U", "n", "s", "u", "p", "p", "o", "r", "t", "e",
             "d", " ", "f", "i", "l", "e", " ", "f", "o", "r", "m", "a", "t">>}
UploadErrorBody(e) == [detail |-> UploadTxt.UploadError \o e]

(* Texts of words of word_len letters.                                     *)
Words(word_len, n) ==
    [i \in 1..n |-> IF i % (word_len + 1) = 0 THEN " " ELSE "a"]

(* The files that are uploaded.                                            *)
File(filename, content_type, data) ==
    [filename |-> filename, content_type |-> content_type, data |-> data]
UploadFiles ==
    {File(<<"a", ".", "t", "x", "t">>, "text/plain", <<"a">>),
     File(<<"b", ".", "t", "x", "t">>, "text/plain", <<"b", " ">>),
     File(<<"l", ".", "t", "x", "t">>, "text/plain", Words(9, UploadChunkSize + 20)),
     File(<<"e", ".", "t", "x", "t">>, "text/plain", <<" ">>),
     File(<<"n", ".", "m", "d">>, "application/octet-stream", <<"a">>),
     File(<<"x", ".", "e", "x", "e">>, "application/octet-stream", <<"a">>)}
(* The chunks of the files that can be indexed.                            *)
UploadBatches ==
    {ChunkDocument(file, UploadChunkSize, UploadOverlap) :
        file \in {f \in UploadFiles : Accepted(f) /\ ~ParseRaises(f)}}

NoUpload(services) ==
    [pc |-> "idle", services |-> services, storage |-> {}, n |-> 0,
     file |-> <<>>, chunks |-> <<>>, status |-> 0, body |-> <<>>]

UploadReply(file, chunks, status, body) ==
    [upload EXCEPT !.pc = "done", !.n = @ + 1, !.file = file, !.chunks = chunks,
                   !.status = status, !.body = body]

(* Lines 275-331: the file is checked and saved, parsed and chunked, and   *)
(* add_documents is entered with the chunks.                               *)
UploadReceive(file) ==
    /\ upload.pc \in {"idle", "done"}
    /\ upload.n < MaxUploads
    /\ Callable("server")
    /\ IF ~Accepted(file)
       THEN /\ \E e \in HttpErrorTexts :
                 upload' = UploadReply(file, <<>>, 500, UploadErrorBody(e))
            /\ UNCHANGED indexVars
       ELSE LET saved == [upload EXCEPT !.storage = @ \cup {file.filename}]
            IN  IF ~upload.services
                THEN /\ upload' = [UploadReply(file, <<>>, 200,
                                       UploadBody(file, 0, UploadTxt.AwaitingIntegration))
                                   EXCEPT !.storage = saved.storage]
                     /\ UNCHANGED indexVars
                ELSE IF ParseRaises(file)
                THEN /\ upload' = [UploadReply(file, <<>>, 200,
                                       UploadBody(file, 0,
                                           UploadTxt.ProcessingFailed \o ParseError(file)))
                                   EXCEPT !.storage = saved.storage]
                     /\ UNCHANGED indexVars
                ELSE LET chunks == ChunkDocument(file, UploadChunkSize, UploadOverlap)
                     IN  /\ AddCall("server", "main", chunks)
                         /\ upload' = [saved EXCEPT !.pc = "adding", !.file = file,
                                                    !.chunks = chunks,
                                                    !.status = 0, !.body = <<>>]
    /\ UNCHANGED <<trace, serverVars, chunker>>

(* add_documents goes on to collection.add.                                *)
UploadStore ==
    /\ upload.pc = "adding"
    /\ AddStore("server")
    /\ UNCHANGED <<trace, serverVars, chunker, upload>>

(* Lines 331-350: add_documents has returned; what it returned is not      *)
(* looked at.                                                              *)
UploadReturn ==
    /\ upload.pc = "adding"
    /\ Returned("server", "add_documents")
    /\ upload' = UploadReply(upload.file, upload.chunks, 200,
                     UploadBody(upload.file, Len(upload.chunks), UploadTxt.ProcessedAndIndexed))
    /\ UNCHANGED <<indexVars, trace, serverVars, chunker>>

(***************************************************************************)
(* The literal text of the templates.                                      *)
(***************************************************************************)
QueryTxt ==
    [BasedOnPrevious |->
         <<"B", "a", "s", "e", "d", " ", "o", "n", " ", "o", "u", "r", " ", "p",
           "r", "e", "v", "i", "o", "u", "s", " ", "c", "o", "n", "v", "e", "r",
           "s", "a", "t", "i", "o", "n", ":", "\n">>,
     CurrentQuestion |->
         <<"\n", "\n", "C", "u", "r", "r", "e", "n", "t", " ", "q", "u", "e",
           "s", "t", "i", "o", "n", ":", " ">>,
     PleaseAnswer |->
         <<"\n", "\n", "P", "l", "e", "a", "s", "e", " ", "a", "n", "s", "w",
           "e", "r", " ", "t", "h", "e", " ", "c", "u", "r", "r", "e", "n", "t",
           " ", "q", "u", "e", "s", "t", "i", "o", "n", " ", "c", "o", "n", "s",
           "i", "d", "e", "r", "i", "n", "g", " ", "t", "h", "e", " ", "c", "o",
           "n", "t", "e", "x", "t", " ", "o", "f", " ", "o", "u", "r", " ", "c",
           "o", "n", "v", "e", "r", "s", "a", "t", "i", "o", "n", ".">>,
     ColonSpace |->
         <<":", " ">>,
     Newline |->
         <<"\n">>,
     BasedOnConversation |->
         <<"B", "a", "s", "e", "d", " ", "o", "n", " ", "o", "u", "r", " ", "c",
           "o", "n", "v", "e", "r", "s", "a", "t", "i", "o", "n", ",", " ">>,
     NoAnswer |->
         <<"N", "o", " ", "a", "n", "s", "w", "e", "r", " ", "g", "e", "n", "e",
           "r", "a", "t", "e", "d">>,
     FollowUp |->
         <<"I", " ", "u", "n", "d", "e", "r", "s", "t", "a", "n", "d", " ", "t",
           "h", "i", "s", " ", "i", "s", " ", "a", " ", "f", "o", "l", "l", "o",
           "w", "-", "u", "p", " ", "t", "o", " ", "o", "u", "r", " ", "c", "o",
           "n", "v", "e", "r", "s", "a", "t", "i", "o", "n", " ", "a", "b", "o",
           "u", "t", " ", "'">>,
     QuoteDotSpace |->
         <<"'", ".", " ">>,
     NeedsIntegration |->
         <<"Y", "o", "u", "r", " ", "R", "A", "G", " ", "s", "y", "s", "t", "e",
           "m", " ", "i", "s", " ", "r", "e", "a", "d", "y", " ", "b", "u", "t",
           " ", "n", "e", "e", "d", "s", " ", "f", "u", "l", "l", " ", "s", "e",
           "r", "v", "i", "c", "e", " ", "i", "n", "t", "e", "g", "r", "a", "t",
           "i", "o", "n", ".", " ">>,
     ICanSee |->
         <<"I", " ", "c", "a", "n", " ", "s", "e", "e", " ", "w", "e", " ", "h",
           "a", "v", "e", " ">>,
     MessagesInHistory |->
         <<" ", "m", "e", "s", "s", "a", "g", "e", "s", " ", "i", "n", " ", "o",
           "u", "r", " ", "c", "o", "n", "v", "e", "r", "s", "a", "t", "i", "o",
           "n", " ", "h", "i", "s", "t", "o", "r", "y", ".">>,
     AskingAbout |->
         <<"I", " ", "u", "n", "d", "e", "r", "s", "t", "a", "n", "d", " ", "y",
           "o", "u", "'", "r", "e", " ", "a", "s", "k", "i", "n", "g", " ", "a",
           "b", "o", "u", "t", " ", "'">>,
     Partially |->
         <<"Y", "o", "u", "r", " ", "R", "A", "G", " ", "s", "y", "s", "t", "e",
           "m", " ", "i", "s", " ", "p", "a", "r", "t", "i", "a", "l", "l", "y",
           " ", "i", "n", "i", "t", "i", "a", "l", "i", "z", "e", "d", " ", "b",
           "u", "t", " ", "n", "e", "e", "d", "s", " ", "f", "u", "l", "l", " ",
           "s", "e", "r", "v", "i", "c", "e", " ", "i", "n", "t", "e", "g", "r",
           "a", "t", "i", "o", "n", ".">>,
     MockContent |->
         <<"M", "o", "c", "k", " ", "r", "e", "l", "e", "v", "a", "n", "t", " ",
           "c", "o", "n", "t", "e", "n", "t", " ", "f", "o", "r", ":", " ">>,
     Previous |->
         <<"p", "r", "e", "v", "i", "o", "u", "s">>,
     Context |->
         <<"c", "o", "n", "t", "e", "x", "t">>,
     CannotBeEmpty |->
         <<"Q", "u", "e", "s", "t", "i", "o", "n", " ", "c", "a", "n", "n", "o",
           "t", " ", "b", "e", " ", "e", "m", "p", "t", "y">>,
     QueryError |->
         <<"Q", "u", "e", "r", "y", " ", "p", "r", "o", "c", "e", "s", "s", "i",
           "n", "g", " ", "e", "r", "r", "o", "r", ":", " ">>,
     User |->
         <<"u", "s", "e", "r">>,
     Assistant |->
         <<"a", "s", "s", "i", "s", "t", "a", "n", "t">>]
LlmTxt ==
    [Found |->
         <<"F", "o", "u", "n", "d", " ">>,
     RelevantFor |->
         <<" ", "r", "e", "l", "e", "v", "a", "n", "t", " ", "d", "o", "c", "u",
           "m", "e", "n", "t", "s", " ", "f", "o", "r", ":", " ">>,
     TwoNewlines |->
         <<"\n", "\n">>,
     DotSpace |->
         <<".", " ">>,
     EllipsisNewline |->
         <<".", ".", ".", "\n">>,
     Ellipsis |->
         <<".", ".", ".">>,
     Processing |->
         <<"P", "r", "o", "c", "e", "s", "s", "i", "n", "g", ":", " ">>,
     NotAvailable |->
         <<" ", "(", "A", "I", " ", "s", "e", "r", "v", "i", "c", "e", " ", "n",
           "o", "t", " ", "a", "v", "a", "i", "l", "a", "b", "l", "e", ")">>,
     Document |->
         <<"D", "o", "c", "u", "m", "e", "n", "t", " ">>,
     System |->
         <<"Y", "o", "u", " ", "a", "r", "e", " ", "a", " ", "h", "e", "l", "p",
           "f", "u", "l", " ", "A", "I", " ", "a", "s", "s", "i", "s", "t", "a",
           "n", "t", " ", "w", "i", "t", "h", " ", "p", "e", "r", "f", "e", "c",
           "t", " ", "m", "e", "m", "o", "r", "y", " ", "o", "f", " ", "o", "u",
           "r", " ", "c", "o", "n", "v", "e", "r", "s", "a", "t", "i", "o", "n",
           ".">>,
     RelevantDocs |->
         <<"\n", "\n", "R", "e", "l", "e", "v", "a", "n", "t", " ", "d", "o",
           "c", "u", "m", "e", "n", "t", "s", " ", "f", "r", "o", "m", " ", "k",
           "n", "o", "w", "l", "e", "d", "g", "e", " ", "b", "a", "s", "e", ":",
           "\n">>,
     UseThese |->
         <<"\n", "\n", "U", "s", "e", " ", "t", "h", "e", "s", "e", " ", "d",
           "o", "c", "u", "m", "e", "n", "t", "s", " ", "t", "o", " ", "a", "n",
           "s", "w", "e", "r", " ", "w", "h", "e", "n", " ", "r", "e", "l", "e",
           "v", "a", "n", "t", ".">>]

RoleText(role) == IF role = "assistant" THEN QueryTxt.Assistant ELSE QueryTxt.User

(***************************************************************************)
(* Program constants of the query path.                                    *)
(***************************************************************************)
HistoryWindow == 6
RagPreviewLen == 300
MaxContextDocs == 3
FallbackPreviewLen == 200
MaxFallbackDocs == 3
DefaultMaxResults == 5

(***************************************************************************)
(* query_for_frontend, lines 178-206: the condensed history and the        *)
(* question handed to process_query.                                       *)
(***************************************************************************)
LastN(s, n) == SubSeq(s, IF Len(s) > n THEN Len(s) - n + 1 ELSE 1, Len(s))

RECURSIVE ContextLines(_)
ContextLines(msgs) ==
    IF msgs = <<>> THEN <<>>
    ELSE (IF Head(msgs).content # <<>>
          THEN RoleText(Head(msgs).role) \o QueryTxt.ColonSpace \o Head(msgs).content
                   \o QueryTxt.Newline
          ELSE <<>>) \o ContextLines(Tail(msgs))
ContextText(context) == ContextLines(LastN(context, HistoryWindow))

(* A question that is framed whether or not there is a history.            *)
EnhancedQuestionAlwaysFramed(question, context_text) ==
    QueryTxt.BasedOnPrevious \o context_text \o QueryTxt.CurrentQuestion \o question
        \o QueryTxt.PleaseAnswer

EnhancedQuestion(question, context_text) ==
    IF context_text # <<>>
    THEN QueryTxt.BasedOnPrevious \o context_text \o QueryTxt.CurrentQuestion \o question
             \o QueryTxt.PleaseAnswer
    ELSE question

(***************************************************************************)
(* process_query, lines 47-52 and 59-77: the document context, the system  *)
(* message and the message sequence sent to the backend.                   *)
(***************************************************************************)
RECURSIVE RagLines(_, _)
RagLines(results, i) ==
    IF i > Len(results) THEN <<>>
    ELSE LlmTxt.Document \o Str(i) \o QueryTxt.ColonSpace
             \o Take(results[i].content, RagPreviewLen) \o LlmTxt.Ellipsis
             \o (IF i < Len(results) THEN LlmTxt.TwoNewlines ELSE <<>>)
             \o RagLines(results, i + 1)
(* A document context made of every result.                                *)
RagContextAllResults(results) == RagLines(results, 1)
RagContext(results) == RagLines(Take(results, MaxContextDocs), 1)

SystemMessage(rag_context) ==
    IF rag_context # <<>>
    THEN LlmTxt.System \o LlmTxt.RelevantDocs \o rag_context \o LlmTxt.UseThese
    ELSE LlmTxt.System

RECURSIVE HistoryMessages(_)
HistoryMessages(msgs) ==
    IF msgs = <<>> THEN <<>>
    ELSE (IF Head(msgs).content # <<>>
          THEN <<[role |-> Head(msgs).role, content |-> Head(msgs).content]>>
          ELSE <<>>) \o HistoryMessages(Tail(msgs))

Messages(query, rag_context, context) ==
    <<[role |-> "system", content |-> SystemMessage(rag_context)]>>
        \o HistoryMessages(LastN(context, HistoryWindow))
        \o <<[role |-> "user", content |-> query]>>

(***************************************************************************)
(* process_query, lines 87-95, and _fallback_response, lines 103-119.      *)
(***************************************************************************)
PrimaryResponse(reply, sources, rag_context) ==
    [answer |-> reply, sources |-> sources, success |-> TRUE,
     model |-> "groq/llama3-70b-8192", use_rag |-> (rag_context # <<>>)]

RECURSIVE FallbackLines(_, _)
FallbackLines(sources, i) ==
    IF i > Len(sources) THEN <<>>
    ELSE Str(i) \o LlmTxt.DotSpace \o Take(sources[i].content, FallbackPreviewLen)
             \o LlmTxt.EllipsisNewline \o FallbackLines(sources, i + 1)

(* A fallback that lists every source.                                     *)
FallbackResponseAllSources(query, sources) ==
    [answer |-> IF sources # <<>>
                THEN LlmTxt.Found \o Str(Len(sources)) \o LlmTxt.RelevantFor \o query
                         \o LlmTxt.TwoNewlines \o FallbackLines(sources, 1)
                ELSE LlmTxt.Processing \o query \o LlmTxt.NotAvailable,
     sources |-> sources, success |-> TRUE, model |-> "fallback",
     use_rag |-> (sources # <<>>)]

FallbackResponse(query, sources) ==
    [answer |-> IF sources # <<>>
                THEN LlmTxt.Found \o Str(Len(sources)) \o LlmTxt.RelevantFor \o query
                         \o LlmTxt.TwoNewlines
                         \o FallbackLines(Take(sources, MaxFallbackDocs), 1)
                ELSE LlmTxt.Processing \o query \o LlmTxt.NotAvailable,
     sources |-> sources, success |-> TRUE, model |-> "fallback",
     use_rag |-> (sources # <<>>)]

(***************************************************************************)
(* query_for_frontend, lines 215-238: the back-reference prefix and the    *)
(* response body; lines 240-264: the body when there is no LLMService;     *)
(* lines 266-268: the HTTP 500 of a failed request.                        *)
(***************************************************************************)
CueWords == {<<"i", "t">>, <<"t", "h", "a", "t">>, <<"t", "h", "i", "s">>,
             <<"m", "o", "r", "e">>, <<"e", "x", "p", "l", "a", "i", "n">>,
             <<"d", "e", "t", "a", "i", "l">>}

(* A heuristic that does not look at the history.                          *)
PostProcessIgnoresHistory(answer, context, question) ==
    IF /\ ~Contains(LowerText(answer), QueryTxt.Previous)
       /\ ~Contains(LowerText(answer), QueryTxt.Context)
       /\ \E w \in CueWords : Contains(LowerText(question), w)
    THEN QueryTxt.BasedOnConversation \o answer
    ELSE answer

PostProcess(answer, context, question) ==
    IF /\ context # <<>>
       /\ ~Contains(LowerText(answer), QueryTxt.Previous)
       /\ ~Contains(LowerText(answer), QueryTxt.Context)
       /\ \E w \in CueWords : Contains(LowerText(question), w)
    THEN QueryTxt.BasedOnConversation \o answer
    ELSE answer

QueryBody(result, context, question) ==
    [answer |-> PostProcess(result.answer, context, question),
     sources |-> result.sources,
     confidence |-> 85,
     success |-> result.success,
     model |-> result.model,
     metadata |-> [sources_found |-> Len(result.sources),
                   rag_enabled |-> result.use_rag,
                   context_used |-> Len(context),
                   context_aware |-> TRUE]]

MockBody(question, context, context_text) ==
    [answer |-> IF context_text # <<>>
                THEN QueryTxt.FollowUp \o question \o QueryTxt.QuoteDotSpace \o QueryTxt.NeedsIntegration
                         \o QueryTxt.ICanSee \o Str(Len(context)) \o QueryTxt.MessagesInHistory
                ELSE QueryTxt.AskingAbout \o question \o QueryTxt.QuoteDotSpace \o QueryTxt.Partially,
     sources |-> <<[content |-> QueryTxt.MockContent \o question,
                    metadata |-> [filename |-> "system_ready.txt", page |-> 1,
                                  score |-> 9]]>>,
     confidence |-> 75,
     success |-> TRUE,
     model |-> "fallback_enhanced_with_memory",
     metadata |-> [context_used |-> Len(context)]]

ErrorBody(message) == [detail |-> QueryTxt.QueryError \o message]

(***************************************************************************)
(* The query endpoint.  A handler is a coroutine without an await: once    *)
(* the event loop has started it, the loop runs nothing else until it      *)
(* returns.  Requests are the requests in flight.                          *)
(***************************************************************************)
NumRequests == 2
Requests == 1..NumRequests

Questions == {<<>>, <<" ">>, <<"h", "i">>,
              <<"e", "x", "p", "l", "a", "i", "n", " ", "m", "o", "r", "e">>}
Contexts == {<<>>, <<[role |-> "user", content |-> <<"h", "i">>]>>}
MaxResults == {DefaultMaxResults}
(* What message.content of the backend's completion can be: some text, a   *)
(* text that mentions the context, one that mentions a previous message,   *)
(* the empty text.                                                         *)
Replies == {<<"o", "k">>, <<"C", "o", "n", "t", "e", "x", "t">>,
            <<"p", "r", "e", "v", "i", "o", "u", "s">>, <<>>}

SvcConfigs ==
    {cfg \in [llm_service : BOOLEAN, groq_client : BOOLEAN, vector_service : BOOLEAN] :
        ~cfg.llm_service => (~cfg.groq_client /\ ~cfg.vector_service)}

IdleReq == [pc |-> "idle"]
PendingReq == [pc |-> "pending"]
DoneReq == [pc |-> "done"]
NoResponse == [r |-> 0, status |-> 0]

InFlight(r) == req[r].pc \notin {"idle", "done"}
Running(r) == req[r].pc \notin {"idle", "pending", "done"}

(* What the handler was given and did, with the response it returned.      *)
Response(r, q, status, body) ==
    [r |-> r, question |-> q.question, use_rag |-> q.use_rag, context |-> q.context,
     query |-> q.query, generated |-> q.generated,
     searches |-> q.searches, backend_calls |-> q.backend_calls,
     fallbacks |-> q.fallbacks, gen |-> q.gen, status |-> status, body |-> body]

Finish(r, q, status, body) ==
    /\ resp' = Response(r, q, status, body)
    /\ req' = [req EXCEPT ![r] = DoneReq]
    /\ loop' = 0

(* use_rag as query_for_frontend hands it to process_query (line 211), and *)
(* the test of process_query line 44.                                      *)
PassedUseRag(request_use_rag) == TRUE
RetrievalEnabled(use_rag, vector_service) == use_rag /\ vector_service

QueryArrive(r) ==
    /\ req[r].pc = "idle"
    /\ req' = [req EXCEPT ![r] = PendingReq]
    /\ UNCHANGED <<indexVars, trace, chunker, upload, svc, loop, resp>>

(* process_query line 41: sources is a local of the call.  Before it, a    *)
(* sources kept in the service object, which holds what the last search    *)
(* returned.                                                               *)
LocalSourcesOfService == call["server"].results
LocalSources == <<>>

(* Lines 168-213, and process_query up to its call of search_similar.      *)
QueryStart(r) ==
    /\ req[r].pc = "pending"
    /\ loop = 0
    /\ \E question \in Questions, use_rag \in BOOLEAN, context \in Contexts,
          max_results \in MaxResults :
         LET context_text == ContextText(context)
             q == [pc |-> "generate", question |-> question, use_rag |-> use_rag,
                   context |-> context, max_results |-> max_results,
                   query |-> EnhancedQuestion(question, context_text),
                   sources |-> LocalSources, rag_context |-> <<>>, searches |-> 0,
                   backend_calls |-> 0, fallbacks |-> 0, gen |-> <<>>,
                   messages |-> <<>>, generated |-> <<>>]
         IN  IF Strip(question) = <<>>
             THEN Finish(r, q, 500, ErrorBody(QueryTxt.CannotBeEmpty))
             ELSE IF ~svc.llm_service
             THEN Finish(r, q, 200, MockBody(question, context, context_text))
             ELSE /\ req' = [req EXCEPT ![r] =
                        [q EXCEPT !.pc =
                            IF RetrievalEnabled(PassedUseRag(use_rag), svc.vector_service)
                            THEN "retrieve" ELSE "generate"]]
                  /\ loop' = r
                  /\ resp' = NoResponse
    /\ UNCHANGED <<indexVars, trace, chunker, upload, svc>>

(* process_query lines 45-54 around the two steps of search_similar.       *)
Retrieved(q, c) ==
    IF c.propagated \/ c.results = <<>>
    THEN [q EXCEPT !.pc = "generate"]
    ELSE [q EXCEPT !.pc = "generate", !.sources = c.results,
                   !.rag_context = RagContext(c.results)]

QueryRetrieveEncode(r) ==
    /\ req[r].pc = "retrieve"
    /\ SearchCall("server", "llm", req[r].query, req[r].max_results)
    /\ req' = [req EXCEPT ![r] =
          IF call'["server"].pc = "returned"
          THEN Retrieved([req[r] EXCEPT !.searches = @ + 1], call'["server"])
          ELSE [req[r] EXCEPT !.pc = "retrieve_query", !.searches = @ + 1]]
    /\ UNCHANGED <<trace, chunker, upload, svc, loop, resp>>

QueryRetrieveQuery(r) ==
    /\ req[r].pc = "retrieve_query"
    /\ SearchQuery("server")
    /\ req' = [req EXCEPT ![r] = Retrieved(req[r], call'["server"])]
    /\ UNCHANGED <<trace, chunker, upload, svc, loop, resp>>

(* process_query lines 56-85 and 101: the one call of the backend, or the  *)
(* fallback when there is no groq_client.                                  *)
QueryGenerate(r) ==
    /\ req[r].pc = "generate"
    /\ IF svc.groq_client
       THEN /\ req' = [req EXCEPT ![r].pc = "backend_call",
                                  ![r].backend_calls = @ + 1,
                                  ![r].gen = Append(@, "primary"),
                                  ![r].messages =
                                      Messages(req[r].query, req[r].rag_context, <<>>)]
            /\ UNCHANGED <<loop, resp>>
       ELSE LET result == FallbackResponse(req[r].query, req[r].sources)
                q == [req[r] EXCEPT !.fallbacks = @ + 1, !.gen = Append(@, "fallback"),
                                    !.generated = result.answer]
            IN  Finish(r, q, 200, QueryBody(result, q.context, q.question))
    /\ UNCHANGED <<indexVars, trace, chunker, upload, svc>>

(* Lines 87-95: the backend answered.                                      *)
QueryBackendReturn(r) ==
    /\ req[r].pc = "backend_call"
    /\ \E reply \in Replies :
         LET result == PrimaryResponse(reply, req[r].sources, req[r].rag_context)
             q == [req[r] EXCEPT !.generated = result.answer]
         IN  Finish(r, q, 200, QueryBody(result, q.context, q.question))
    /\ UNCHANGED <<indexVars, trace, chunker, upload, svc>>

(* A generator that calls the backend again when the call raised.          *)
QueryBackendRaiseRetries(r) ==
    /\ req[r].pc = "backend_call"
    /\ req' = [req EXCEPT ![r].backend_calls = @ + 1,
                           ![r].gen = Append(@, "primary")]
    /\ UNCHANGED <<indexVars, trace, chunker, upload, svc, loop, resp>>

(* Lines 97-99: the backend call raised.                                   *)
QueryBackendRaise(r) ==
    /\ req[r].pc = "backend_call"
    /\ LET result == FallbackResponse(req[r].query, req[r].sources)
           q == [req[r] EXCEPT !.fallbacks = @ + 1, !.gen = Append(@, "fallback"),
                               !.generated = result.answer]
       IN  Finish(r, q, 200, QueryBody(result, q.context, q.question))
    /\ UNCHANGED <<indexVars, trace, chunker, upload, svc>>

(* What add_documents left in the store in an earlier run of the server:   *)
(* four chunks, one of them longer than the previews of process_query and  *)
(* _fallback_response.                                                     *)
Passage == [i \in 1..(RagPreviewLen + 1) |-> IF i <= RagPreviewLen THEN "y" ELSE "c"]
Preloaded ==
    LET documents == <<Doc(LongA, 0), Doc(LongB, 1), Doc(Passage, 2), Doc(LongB, 3)>>
    IN  AppendNew(<<>>, BatchIds(documents), BatchTexts(documents),
                  BatchMetadatas(documents), 1)

Init ==
    /\ \E items \in {<<>>, Preloaded} : InitIndex(items)
    /\ trace = <<>>
    /\ svc \in SvcConfigs
    /\ req = [r \in Requests |-> IdleReq]
    /\ loop = 0
    /\ resp = NoResponse
    /\ chunker = NoChunker
    /\ upload = NoUpload(FALSE)

Next ==
    \E r \in Requests :
        \/ QueryArrive(r)
        \/ QueryStart(r)
        \/ QueryRetrieveEncode(r)
        \/ QueryRetrieveQuery(r)
        \/ QueryGenerate(r)
        \/ QueryBackendReturn(r)
        \/ QueryBackendRaise(r)

Spec == Init /\ [][Next]_vars

(***************************************************************************)
(* The sequential caller of the scripts (test_final.py,                    *)
(* process_documents.py): one method call at a time, each run to its       *)
(* return.  trace keeps what a successful clear_all returned and what the  *)
(* first add_documents made on the same object after it returned.  The     *)
(* reading calls leave it as it is; a second add_documents, one on another *)
(* object, or one in which the embedding model or the store failed, ends   *)
(* it.                                                                     *)
(***************************************************************************)
Entry(c) ==
    [h |-> c.h, op |-> c.op, ok |-> c.ok, n |-> c.n,
     distinct |-> c.distinct, had |-> Len(c.before.items)]

Logged(tr, c) ==
    IF c.op = "clear_all" THEN (IF c.ok THEN <<Entry(c)>> ELSE <<>>)
    ELSE IF c.op # "add_documents" THEN tr
    ELSE IF tr = <<>> \/ c.fault \/ Len(tr) > 1 THEN <<>>
    ELSE IF tr[1].h # c.h THEN <<>>
    ELSE Append(tr, Entry(c))

Log(c) ==
    /\ trace' = IF call'[c].pc = "returned" THEN Logged(trace, call'[c]) ELSE trace
    /\ UNCHANGED <<serverVars, chunker, upload>>

Queries == {<<"a">>}
MaxDocs == {1, 5}

IndexAdd(h) == \E documents \in Batches : AddCall("script", h, documents) /\ Log("script")
IndexAddStore == AddStore("script") /\ Log("script")
IndexSearch(h) ==
    \E query \in Queries, max_docs \in MaxDocs :
        SearchCall("script", h, query, max_docs) /\ Log("script")
IndexSearchQuery == SearchQuery("script") /\ Log("script")
IndexGetStats(h) == GetStats("script", h) /\ Log("script")
IndexClear(h) == ClearDelete("script", h) /\ Log("script")
IndexClearCreate == ClearCreate("script") /\ Log("script")

InitSpecIndex ==
    /\ InitIndex(<<>>)
    /\ trace = <<>>
    /\ svc = [llm_service |-> FALSE, groq_client |-> FALSE, vector_service |-> FALSE]
    /\ req = [r \in Requests |-> IdleReq]
    /\ loop = 0
    /\ resp = NoResponse
    /\ chunker = NoChunker
    /\ upload = NoUpload(FALSE)

(* The objects the sequential caller drives.                               *)
DriverHandles == {"main", "llm"}

NextIndex ==
    \/ \E h \in DriverHandles : IndexAdd(h)
    \/ IndexAddStore
    \/ \E h \in DriverHandles : IndexSearch(h)
    \/ IndexSearchQuery
    \/ \E h \in DriverHandles : IndexGetStats(h)
    \/ \E h \in DriverHandles : IndexClear(h)
    \/ IndexClearCreate

SpecIndex == InitSpecIndex /\ [][NextIndex]_vars


(***************************************************************************)
(* The server and a script at the same time on one store, as when          *)
(* process_documents.py is run while the server is up.  The server         *)
(* searches through the LLMService's object, adds an upload's chunks and   *)
(* reads the statistics through its own; the script clears, adds, reads    *)
(* the statistics and searches through its vs.  Neither process waits for  *)
(* the other.                                                              *)
(***************************************************************************)
Idle == UNCHANGED <<trace, serverVars, chunker, upload>>

ServerSearch ==
    \E query \in Queries, max_docs \in MaxDocs :
        SearchCall("server", "llm", query, max_docs) /\ Idle
ServerSearchQuery == SearchQuery("server") /\ Idle
ServerAdd ==
    \E documents \in UploadBatches : AddCall("server", "main", documents) /\ Idle
ServerAddStore == AddStore("server") /\ Idle
ServerGetStats == GetStats("server", "main") /\ Idle
ScriptClear == ClearDelete("script", "vs") /\ Idle
ScriptClearCreate == ClearCreate("script") /\ Idle
ScriptAdd == \E documents \in Batches : AddCall("script", "vs", documents) /\ Idle
ScriptAddStore == AddStore("script") /\ Idle
ScriptGetStats == GetStats("script", "vs") /\ Idle
ScriptSearch ==
    \E query \in Queries, max_docs \in MaxDocs :
        SearchCall("script", "vs", query, max_docs) /\ Idle
ScriptSearchQuery == SearchQuery("script") /\ Idle

InitConcurrent ==
    /\ \E items \in {<<>>, Preloaded} : InitIndex(items)
    /\ trace = <<>>
    /\ svc = [llm_service |-> TRUE, groq_client |-> FALSE, vector_service |-> TRUE]
    /\ req = [r \in Requests |-> IdleReq]
    /\ loop = 0
    /\ resp = NoResponse
    /\ chunker = NoChunker
    /\ upload = NoUpload(FALSE)

NextConcurrent ==
    \/ ServerSearch
    \/ ServerSearchQuery
    \/ ServerAdd
    \/ ServerAddStore
    \/ ServerGetStats
    \/ ScriptClear
    \/ ScriptClearCreate
    \/ ScriptAdd
    \/ ScriptAddStore
    \/ ScriptGetStats
    \/ ScriptSearch
    \/ ScriptSearchQuery

SpecConcurrent == InitConcurrent /\ [][NextConcurrent]_vars

(***************************************************************************)
(* One call of chunk_text.  The inputs are every text of letters and       *)
(* spaces up to MaxTextLen characters with every chunk_size up to          *)
(* MaxChunkSize and every overlap below it, and the parameters of the      *)
(* chunking test (test_document_parsing.py line 16) with texts of words of *)
(* one length.                                                             *)
(***************************************************************************)
ChunkTexts == UNION {[1..n -> {"a", " "}] : n \in 0..MaxTextLen}
ChunkParams ==
    {p \in (1..MaxChunkSize) \X (0..MaxChunkSize) : p[2] < p[1]}

ScenarioTexts == {Words(w, ScenarioTextLen) : w \in {4, 70, 120}}

ChunkCall(text, chunk_size, overlap) ==
    [pc |-> "call", text |-> text, chunk_size |-> chunk_size, overlap |-> overlap,
     start |-> 0, chunks |-> <<>>]

InitChunk ==
    /\ InitIndex(<<>>)
    /\ trace = <<>>
    /\ svc = [llm_service |-> FALSE, groq_client |-> FALSE, vector_service |-> FALSE]
    /\ req = [r \in Requests |-> IdleReq]
    /\ loop = 0
    /\ resp = NoResponse
    /\ \/ \E text \in ChunkTexts, p \in ChunkParams :
             chunker = ChunkCall(text, p[1], p[2])
       \/ \E text \in ScenarioTexts :
             chunker = ChunkCall(text, ScenarioChunkSize, ScenarioOverlap)
    /\ upload = NoUpload(FALSE)

NextChunk ==
    \/ ChunkEnter
    \/ ChunkStep
    \/ ChunkReturn

SpecChunk == InitChunk /\ [][NextChunk]_vars

(***************************************************************************)
(* The upload endpoint on an empty store: files are uploaded one after the *)
(* other.                                                                  *)
(***************************************************************************)
InitUpload ==
    /\ InitIndex(<<>>)
    /\ trace = <<>>
    /\ svc = [llm_service |-> FALSE, groq_client |-> FALSE, vector_service |-> FALSE]
    /\ req = [r \in Requests |-> IdleReq]
    /\ loop = 0
    /\ resp = NoResponse
    /\ chunker = NoChunker
    /\ \E services \in BOOLEAN : upload = NoUpload(services)

NextUpload ==
    \/ \E file \in UploadFiles : UploadReceive(file)
    \/ UploadStore
    \/ UploadReturn

SpecUpload == InitUpload /\ [][NextUpload]_vars

(***************************************************************************)
(* C1: every request whose question is not blank gets a response with a    *)
(* non-empty answer and success true, whether or not there is an           *)
(* LLMService, a groq_client (answering or raising) or a vector service,   *)
(* whether search_similar fails or not, and whatever the index holds.      *)
(***************************************************************************)
IsBlank(s) == \A i \in 1..Len(s) : IsSpace(s[i])

C1_AlwaysAnswers ==
    (resp.status # 0 /\ ~IsBlank(resp.question)) =>
        /\ resp.status = 200
        /\ resp.body.success = TRUE
        /\ resp.body.answer # <<>>

(***************************************************************************)
(* C2: one process_query call invokes the backend at most once.  The       *)
(* generator goes to Primary at most once and never after Fallback: with   *)
(* no groq_client it goes to Fallback without a backend call, and when the *)
(* backend call raises it goes to Fallback without a second call.          *)
(***************************************************************************)
GenPathOk(q) ==
    /\ q.backend_calls <= 1
    /\ q.gen \in {<<>>, <<"primary">>, <<"fallback">>, <<"primary", "fallback">>}
    /\ q.gen = <<"fallback">> => (q.backend_calls = 0 /\ ~svc.groq_client)
    /\ q.gen = <<"primary", "fallback">> => (q.backend_calls = 1 /\ q.fallbacks = 1)

C2_OneBackendAttempt ==
    /\ \A r \in Requests : Running(r) => GenPathOk(req[r])
    /\ resp.status = 200 => GenPathOk(resp)

C2_Witness ==
    /\ resp.status = 200
    /\ resp.gen = <<"primary", "fallback">>
    /\ resp.backend_calls = 1

(***************************************************************************)
(* C3: a request whose question is empty or only whitespace is answered    *)
(* with an error, and neither search_similar nor the backend nor the       *)
(* fallback has run for it; no running handler holds a blank question.     *)
(***************************************************************************)
C3_BlankQuestionRejected ==
    /\ (resp.status # 0 /\ IsBlank(resp.question)) =>
          /\ resp.status = 500
          /\ DOMAIN resp.body = {"detail"}
          /\ resp.searches = 0 /\ resp.backend_calls = 0 /\ resp.fallbacks = 0
    /\ \A r \in Requests : Running(r) => ~IsBlank(req[r].question)

C3_Witness ==
    /\ resp.status = 500
    /\ resp.question = <<" ">>
    /\ svc.llm_service /\ svc.vector_service

(***************************************************************************)
(* C4: retrieval runs only when the request enables RAG: for a request     *)
(* with use_rag false that the LLMService handles, search_similar is not   *)
(* called and the response has no sources.                                 *)
(***************************************************************************)
C4_RetrievalOnlyWhenEnabled ==
    /\ \A r \in Requests : (Running(r) /\ ~req[r].use_rag) => req[r].searches = 0
    /\ (resp.status = 200 /\ svc.llm_service /\ ~resp.use_rag) =>
          (resp.searches = 0 /\ resp.body.sources = <<>>)

(***************************************************************************)
(* C5: index operations are serialized: no add_documents or search_similar *)
(* reaches the store while a clear_all has deleted the collection and not  *)
(* yet recreated it.                                                       *)
(***************************************************************************)
C5_NoHalfClearedObserved ==
    \A c \in Callers :
        call[c].op \in {"add_documents", "search_similar"} => ~call[c].half

(***************************************************************************)
(* C6: a query blocked in its backend call stalls no other query: while    *)
(* one request waits for the backend, the handler of every other request   *)
(* the server has received can start.                                      *)
(***************************************************************************)
C6_BlockedCallStallsNoOne ==
    \A r1, r2 \in Requests :
        (r1 # r2 /\ req[r1].pc = "backend_call" /\ req[r2].pc = "pending") =>
            ENABLED QueryStart(r2)

(***************************************************************************)
(* C7: no VectorService method lets an error of the embedding model or of  *)
(* the store reach its caller: when such an error happens inside           *)
(* add_documents or clear_all the call returns False, inside               *)
(* search_similar it returns the empty list, inside get_stats it returns   *)
(* total_chunks 0 with status "error".                                     *)
(***************************************************************************)
C7_NoFaultPropagates ==
    \A c \in Callers :
        /\ ~call[c].propagated
        /\ (call[c].pc = "returned" /\ call[c].errored) =>
              CASE call[c].op \in {"add_documents", "clear_all"} -> ~call[c].ok
                [] call[c].op = "search_similar" -> call[c].results = <<>>
                [] call[c].op = "get_stats" ->
                      call[c].stats = [total_chunks |-> 0, status |-> "error"]

C7_Witness ==
    \E c \in Callers :
        /\ Returned(c, "get_stats") /\ call[c].fault
        /\ collection # NoCollection /\ Len(collection.items) > 0
        /\ call[c].stats.status = "error"

(***************************************************************************)
(* C8: clear_all is atomic.  When it has returned, either it returned True *)
(* and the object holds an existing, empty collection, or it returned      *)
(* False and the collection is the one the call found.                     *)
(***************************************************************************)
C8_ClearAllAtomic ==
    \A c \in Callers :
        Returned(c, "clear_all") =>
            IF call[c].ok
            THEN Exists(collection, handle[call[c].h]) /\ collection.items = <<>>
            ELSE collection = call[c].before

(***************************************************************************)
(* C9: after clear_all returned True, get_stats on the same object reports *)
(* total_chunks 0; an add_documents of n chunks of distinct content that   *)
(* follows returns True, and get_stats then reports total_chunks n.        *)
(***************************************************************************)
C9_ClearThenStatsAndAdd ==
    /\ \A c \in Callers :
          (/\ Returned(c, "get_stats") /\ ~call[c].fault
           /\ trace # <<>> /\ trace[1].h = call[c].h) =>
              /\ Len(trace) = 1 => call[c].stats.total_chunks = 0
              /\ (Len(trace) = 2 /\ trace[2].distinct) =>
                    call[c].stats.total_chunks = trace[2].n
    /\ (Len(trace) >= 2 /\ trace[2].distinct) => trace[2].ok

C9_Witness ==
    /\ Len(trace) = 2 /\ trace[1].had > 0
    /\ trace[2].distinct /\ trace[2].n = 2 /\ trace[2].ok
    /\ Returned("script", "get_stats") /\ ~call["script"].fault
    /\ call["script"].h = trace[1].h
    /\ call["script"].stats = [total_chunks |-> 2, status |-> "operational"]

(***************************************************************************)
(* C10: indexing is idempotent on content.  An add_documents call grows    *)
(* the index by at most the number of contents of its batch that were not  *)
(* in the index before: content that is already there, or that occurs      *)
(* earlier in the batch, adds no entry.                                    *)
(***************************************************************************)
BatchContents(documents) == {documents[i].content : i \in 1..Len(documents)}

C10_IdempotentOnContent ==
    [][\A c \in Callers :
          (call[c].op = "add_documents" /\ call[c].pc = "store"
              /\ call'[c].pc = "returned") =>
             Len(collection'.items) <=
                 Len(collection.items)
                   + Cardinality(BatchContents(call[c].documents)
                                    \ ItemDocuments(collection))]_vars

(***************************************************************************)
(* C11: one entry per indexed chunk, no identifier shared by two contents. *)
(* When add_documents has returned True, every content of its batch is in  *)
(* the index, and the index has grown by at least the number of contents   *)
(* of the batch that were not in it before (C10 states the other half: by  *)
(* at most that number).                                                   *)
(***************************************************************************)
C11_OneEntryPerContent ==
    [][\A c \in Callers :
          (call[c].op = "add_documents" /\ call[c].pc = "store"
              /\ call'[c].pc = "returned" /\ call'[c].ok) =>
             /\ BatchContents(call[c].documents) \subseteq ItemDocuments(collection')
             /\ Len(collection'.items) >=
                  Len(collection.items)
                    + Cardinality(BatchContents(call[c].documents)
                                     \ ItemDocuments(collection))]_vars

(***************************************************************************)
(* C12: a search_similar that met no error returns min(max_docs, number of *)
(* indexed chunks) results (none on an empty index), in descending score,  *)
(* equal scores in the order the chunks were inserted.                     *)
(***************************************************************************)
ItemOf(result) ==
    CHOOSE j \in 1..Len(collection.items) :
        /\ collection.items[j].document = result.content
        /\ collection.items[j].metadata = result.metadata

C13_StartMovesForward ==
    [][ChunkStep => chunker'.start > chunker.start]_vars

(***************************************************************************)
(* C14: the chunks are in document order: start_pos never decreases from a *)
(* chunk to the next, for every text and every chunk_size > overlap >= 0;  *)
(* when the overlap is at most half the chunk_size, as with chunk_size 100 *)
(* and overlap 20, start_pos and end_pos both increase from each chunk to  *)
(* the next.                                                               *)
(***************************************************************************)
C14_ChunksInOrder ==
    chunker.pc \in {"loop", "done"} =>
        \A k \in 1..(Len(chunker.chunks) - 1) :
            LET c1 == chunker.chunks[k]
                c2 == chunker.chunks[k + 1]
            IN  /\ c1.start_pos <= c2.start_pos
                /\ c1.chunk_id < c2.chunk_id
                /\ 2 * chunker.overlap <= chunker.chunk_size =>
                      (c1.start_pos < c2.start_pos /\ c1.end_pos < c2.end_pos)

C14_Witness ==
    /\ chunker.pc = "done"
    /\ chunker.chunk_size = ScenarioChunkSize /\ chunker.overlap = ScenarioOverlap
    /\ Len(chunker.chunks) >= 3
    /\ chunker.chunks[2].end_pos < chunker.chunks[2].start_pos + ScenarioChunkSize

(***************************************************************************)
(* C15: no chunk is longer than chunk_size, and the length field of a      *)
(* chunk is the length of its text.                                        *)
(***************************************************************************)
C15_ChunkSizeBound ==
    chunker.pc \in {"loop", "done"} =>
        \A k \in 1..Len(chunker.chunks) :
            /\ Len(chunker.chunks[k].text) <= chunker.chunk_size
            /\ chunker.chunks[k].length = Len(chunker.chunks[k].text)

C15_Witness ==
    /\ chunker.pc = "done"
    /\ Len(chunker.chunks) >= 2
    /\ chunker.chunk_size < Len(chunker.text)
    /\ \E k \in 1..Len(chunker.chunks) :
          Len(chunker.chunks[k].text) = chunker.chunk_size
    /\ \E k \in 1..Len(chunker.chunks) :
          Len(chunker.chunks[k].text) < chunker.chunk_size

(***************************************************************************)
(* Where the text of a chunk lies in the input: text[start_pos:end_pos]    *)
(* without the whitespace at its two ends.                                 *)
(***************************************************************************)
ChunkTextFrom(text, c) ==
    LET window == PySlice(text, c.start_pos, c.end_pos)
    IN  c.start_pos + (Len(window) - Len(LStrip(window)))
InChunkText(text, i, c) ==
    ChunkTextFrom(text, c) <= i /\ i < ChunkTextFrom(text, c) + c.length

C17_OverlapBound ==
    chunker.pc \in {"loop", "done"} =>
        \A k \in 1..(Len(chunker.chunks) - 1) :
            chunker.chunks[k].end_pos - chunker.chunks[k + 1].start_pos
                <= chunker.overlap

C17_Witness ==
    /\ chunker.pc = "done"
    /\ chunker.overlap > 0
    /\ Len(chunker.chunks) >= 3
    /\ chunker.chunks[1].end_pos - chunker.chunks[2].start_pos = chunker.overlap
    /\ chunker.chunks[2].end_pos - chunker.chunks[3].start_pos < chunker.overlap

(***************************************************************************)
(* C18: the answer of _fallback_response.  Without sources it is a         *)
(* template around the query; with sources it is a summary line that names *)
(* their number and the query, then the first three sources at most, in    *)
(* their order, numbered from 1, each cut to 200 characters; model is      *)
(* "fallback" and success is true.  The endpoint may put its               *)
(* back-reference in front of the answer.                                  *)
(***************************************************************************)
RECURSIVE NumberedPassages(_, _, _)
NumberedPassages(sources, k, shown) ==
    IF k > shown THEN <<>>
    ELSE Str(k) \o <<".", " ">> \o SubSeq(sources[k].content, 1,
                                          Min(Len(sources[k].content), 200))
             \o <<".", ".", ".", "\n">> \o NumberedPassages(sources, k + 1, shown)

FromFallback(response) ==
    /\ response.status = 200
    /\ response.gen # <<>>
    /\ response.gen[Len(response.gen)] = "fallback"

C18_FallbackAnswer ==
    FromFallback(resp) =>
        LET sources == resp.body.sources
            answer == resp.body.answer
            expected ==
                IF sources = <<>>
                THEN LlmTxt.Processing \o resp.query \o LlmTxt.NotAvailable
                ELSE LlmTxt.Found \o Str(Len(sources)) \o LlmTxt.RelevantFor \o resp.query
                         \o <<"\n", "\n">>
                         \o NumberedPassages(sources, 1, Min(Len(sources), 3))
        IN  /\ resp.body.model = "fallback"
            /\ resp.body.success = TRUE
            /\ answer \in {expected, QueryTxt.BasedOnConversation \o expected}
            /\ Contains(resp.query, resp.question)
            /\ sources = <<>> => resp.body.metadata.sources_found = 0

C18_Witness ==
    /\ FromFallback(resp)
    /\ Len(resp.body.sources) = 4
    /\ Len(resp.body.sources[1].content) > 200
    /\ resp.body.model = "fallback"

(***************************************************************************)
(* The back-reference of query_for_frontend, on the answers that           *)
(* process_query generated.                                                *)
(***************************************************************************)
BackReference ==
    <<"B", "a", "s", "e", "d", " ", "o", "n", " ", "o", "u", "r", " ", "c", "o",
      "n", "v", "e", "r", "s", "a", "t", "i", "o", "n", ",", " ">>
HasCue(question) ==
    \E w \in {<<"i", "t">>, <<"t", "h", "a", "t">>, <<"t", "h", "i", "s">>,
              <<"m", "o", "r", "e">>, <<"e", "x", "p", "l", "a", "i", "n">>,
              <<"d", "e", "t", "a", "i", "l">>} :
        Contains(LowerText(question), w)
SaysContext(answer) ==
    Contains(LowerText(answer), <<"c", "o", "n", "t", "e", "x", "t">>)
SaysPrevious(answer) ==
    Contains(LowerText(answer), <<"p", "r", "e", "v", "i", "o", "u", "s">>)
Generated(response) == response.status = 200 /\ response.gen # <<>>

(***************************************************************************)
(* C19 as stated: the answer is prefixed with "Based on our conversation, "*)
(* exactly when the history is not empty, the generated answer lacks the   *)
(* word "context" and the question contains a cue word.                    *)
(***************************************************************************)
C19_PrefixedUnlessContextWord ==
    Generated(resp) =>
        resp.body.answer =
            IF resp.context # <<>> /\ ~SaysContext(resp.generated) /\ HasCue(resp.question)
            THEN BackReference \o resp.generated
            ELSE resp.generated

(***************************************************************************)
(* C19 amended: the answer is prefixed exactly when the history is not     *)
(* empty, the generated answer contains neither "previous" nor "context"   *)
(* in any letter case, and the question contains a cue word in any letter  *)
(* case; otherwise it is the generated answer.                             *)
(***************************************************************************)
C19_BackReferencePrefix ==
    Generated(resp) =>
        resp.body.answer =
            IF /\ resp.context # <<>>
               /\ ~SaysContext(resp.generated) /\ ~SaysPrevious(resp.generated)
               /\ HasCue(resp.question)
            THEN BackReference \o resp.generated
            ELSE resp.generated

C19_Witness ==
    /\ Generated(resp)
    /\ resp.context # <<>>
    /\ resp.question = <<"e", "x", "p", "l", "a", "i", "n", " ", "m", "o", "r", "e">>
    /\ resp.generated = <<"o", "k">>
    /\ resp.body.answer = BackReference \o <<"o", "k">>

(***************************************************************************)
(* C20: every reply to a query carries a success flag, and a reply to a    *)
(* query that failed has success false and an error field.                 *)
(***************************************************************************)
C20_StructuredResult ==
    resp # NoResponse =>
        /\ "success" \in DOMAIN resp.body
        /\ (resp.status # 200 \/ ~resp.body.success) =>
               /\ resp.body.success = FALSE
               /\ "error" \in DOMAIN resp.body

(***************************************************************************)
(* C21: a request with a non-blank question is never refused, and with no  *)
(* retrieval result and no history turn the backend is sent the generic    *)
(* system message, without a document section, followed by the question as *)
(* it was asked; the fallback is given that same question.                 *)
(***************************************************************************)
C21_BareQueryWithoutContext ==
    /\ (resp # NoResponse /\ Strip(resp.question) # <<>>) => resp.status = 200
    /\ \A r \in Requests :
         (/\ req[r].pc = "backend_call"
          /\ req[r].context = <<>>
          /\ req[r].sources = <<>>) =>
             /\ req[r].query = req[r].question
             /\ req[r].messages =
                    <<[role |-> "system", content |-> LlmTxt.System],
                      [role |-> "user", content |-> req[r].question]>>
             /\ ~Contains(req[r].messages[1].content, LlmTxt.Document)
    /\ (/\ resp # NoResponse
        /\ resp.gen # <<>>
        /\ resp.context = <<>>) => resp.query = resp.question

C21_Witness ==
    \E r \in Requests :
        /\ req[r].pc = "backend_call"
        /\ req[r].context = <<>>
        /\ req[r].sources = <<>>
        /\ req[r].question = <<"h", "i">>
        /\ Len(req[r].messages) = 2

(***************************************************************************)
(* C22: an upload whose file was saved and whose parsing, chunking,        *)
(* embedding or indexing failed reports a processing_status that begins    *)
(* with "uploaded_but_processing_failed", chunks_created 0 and             *)
(* ready_for_queries false, and keeps the file; "processed_and_indexed"    *)
(* with chunks_created > 0 is reported only when add_documents added the   *)
(* chunks.                                                                 *)
(***************************************************************************)
StartsWith(s, prefix) == Take(s, Len(prefix)) = prefix
Ingested(u) ==
    /\ u.pc = "done" /\ u.status = 200 /\ u.services
AddSucceeded == Returned("server", "add_documents") /\ call["server"].ok
C22_IngestionFailureReported ==
    Ingested(upload) =>
        /\ (ParseRaises(upload.file) \/ ~AddSucceeded) =>
               /\ StartsWith(upload.body.processing_status,
                             <<"u", "p", "l", "o", "a", "d", "e", "d", "_", "b", "u", "t",
                               "_", "p", "r", "o", "c", "e", "s", "s", "i", "n", "g", "_",
                               "f", "a", "i", "l", "e", "d">>)
               /\ upload.body.chunks_created = 0
               /\ ~upload.body.ready_for_queries
               /\ upload.file.filename \in upload.storage
        /\ (/\ upload.body.processing_status = UploadTxt.ProcessedAndIndexed
            /\ upload.body.chunks_created > 0) => AddSucceeded

(***************************************************************************)
(* C23: a query step leaves the collection, the service objects and their  *)
(* handles as they are, and the response of a request is decided by its    *)
(* own question and history, the collection and the backend's reply: its   *)
(* query is built from its own question and history, its sources are what  *)
(* its own search returned (none without a search), a search result is     *)
(* empty or the ranking of the collection for that query, and its answer   *)
(* is the backend's reply or the fallback for that query and sources.      *)
(***************************************************************************)
OwnSources(response) ==
    IF response.searches > 0 THEN call["server"].results ELSE <<>>
C23_OwnInputsDecide ==
    (resp # NoResponse /\ resp.status = 200 /\ resp.gen # <<>>) =>
        /\ resp.query = EnhancedQuestion(resp.question, ContextText(resp.context))
        /\ resp.body.sources = OwnSources(resp)
        /\ OwnSources(resp) \in
               {<<>>,
                FormatResults(CollectionQuery(collection, handle["llm"],
                                              Embedding(resp.query),
                                              DefaultMaxResults, FALSE))}
        /\ resp.generated \in
               Replies \cup {FallbackResponse(resp.query, OwnSources(resp)).answer}
C23_QueriesStateless ==
    /\ [][collection' = collection /\ handle' = handle /\ svc' = svc]_vars
    /\ []C23_OwnInputsDecide

C23_Witness ==
    /\ resp # NoResponse /\ resp.status = 200 /\ resp.gen # <<>>
    /\ resp.body.sources # <<>>
    /\ \E r \in Requests : r # resp.r /\ req[r].pc = "done"

(***************************************************************************)
(* C24: read-after-write.  When add_documents returns True every content   *)
(* of its batch is in the collection, and while the collection holds       *)
(* chunks a get_stats through any object, the store answering, reports     *)
(* their number with status "operational" and a search_similar for at      *)
(* least one document returns a result.                                    *)
(***************************************************************************)
C24_WrittenIsStored ==
    \A c \in Callers :
        (/\ call[c].op = "add_documents" /\ call[c].pc = "store"
         /\ call'[c].pc = "returned" /\ call'[c].ok) =>
            \A i \in 1..Len(call[c].documents) :
                DocContent(call[c].documents[i]) \in ItemDocuments(collection')
C24_StoredIsRead ==
    \A c \in Callers :
        (/\ call'[c].pc = "returned" /\ call[c].pc # "returned" /\ ~call'[c].fault
         /\ collection' # NoCollection /\ Len(collection'.items) > 0) =>
            /\ call'[c].op = "get_stats" =>
                   call'[c].stats = [total_chunks |-> Len(collection'.items),
                                     status |-> "operational"]
            /\ (call'[c].op = "search_similar" /\ call'[c].max_docs >= 1) =>
                   call'[c].results # <<>>
C24_ReadAfterWrite == [][C24_WrittenIsStored /\ C24_StoredIsRead]_vars

(***************************************************************************)
(* C25: every result of search_similar has a score between 0 and 1 (0 and  *)
(* ScoreScale here), which is 1 minus the cosine distance of the query and *)
(* the result's content.                                                   *)
(***************************************************************************)
C25_ScoreInUnitRange ==
    \A c \in Callers :
        Returned(c, "search_similar") =>
            \A k \in 1..Len(call[c].results) :
                LET result == call[c].results[k]
                IN  /\ result.score =
                           ScoreScale - CosineDistance(Embedding(call[c].query),
                                                       Embedding(result.content))
                    /\ result.score >= 0
                    /\ result.score <= ScoreScale

(***************************************************************************)
(* C26: the messages sent to the backend are the system message, then the  *)
(* at most 6 most recent history turns in their order, each with its role  *)
(* and content, then the current user turn.                                *)
(***************************************************************************)
C26_HistoryTurnsAsMessages ==
    \A r \in Requests :
        req[r].pc = "backend_call" =>
            LET window == LastN(req[r].context, 6)
                messages == req[r].messages
            IN  /\ Len(messages) = Len(window) + 2
                /\ messages[1].role = "system"
                /\ \A k \in 1..Len(window) :
                       /\ messages[k + 1].role = window[k].role
                       /\ messages[k + 1].content = window[k].content
                /\ messages[Len(messages)].role = "user"

(***************************************************************************)
(* C27: the document context of a request that found results is made of    *)
(* its at most 3 top results in rank order, result i as "Document i: ",    *)
(* the first 300 characters of its content and "...", joined by an empty   *)
(* line, and it is part of the system message; the sources of the response *)
(* are all the results of the search.                                      *)
(***************************************************************************)
DocumentSection(i, content) ==
    <<"D", "o", "c", "u", "m", "e", "n", "t", " ">> \o Str(i) \o <<":", " ">>
        \o SubSeq(content, 1, Min(300, Len(content))) \o <<".", ".", ".">>
RECURSIVE JoinSections(_, _)
JoinSections(results, n) ==
    IF n = 0 THEN <<>>
    ELSE IF n = 1 THEN DocumentSection(1, results[1].content)
    ELSE JoinSections(results, n - 1) \o <<"\n", "\n">>
             \o DocumentSection(n, results[n].content)
C27_TopThreeInContext ==
    /\ \A r \in Requests :
         (req[r].pc \in {"generate", "backend_call"} /\ req[r].sources # <<>>) =>
             /\ req[r].sources = call["server"].results
             /\ req[r].rag_context =
                    JoinSections(req[r].sources, Min(3, Len(req[r].sources)))
             /\ req[r].pc = "backend_call" =>
                    Contains(req[r].messages[1].content, req[r].rag_context)
    /\ (resp # NoResponse /\ resp.status = 200 /\ resp.searches > 0) =>
           resp.body.sources = call["server"].results

C27_Witness ==
    \E r \in Requests :
        /\ req[r].pc = "backend_call"
        /\ Len(req[r].sources) = 4
        /\ \E k \in 1..3 : Len(req[r].sources[k].content) > 300

(***************************************************************************)
(* C28: the word-boundary adjustment.  In an iteration whose window        *)
(* start + chunk_size ends before the end of the text, the window ends at  *)
(* the last space of the window that lies beyond start + chunk_size // 2   *)
(* when there is one; in every other iteration it ends at                  *)
(* start + chunk_size.  The chunk an iteration appends records that end.   *)
(***************************************************************************)
SpacesBeyondMidpoint(text, start, chunk_size) ==
    {i \in 0..(Len(text) - 1) :
        /\ text[i + 1] = " "
        /\ i >= start /\ i < start + chunk_size
        /\ i > start + (chunk_size \div 2)}
C28_WordBoundaryAdjustment ==
    [][ChunkStep =>
          LET text == chunker.text
              start == chunker.start
              chunk_size == chunker.chunk_size
              spaces == SpacesBeyondMidpoint(text, start, chunk_size)
              end == IF start + chunk_size < Len(text) /\ spaces # {}
                     THEN CHOOSE i \in spaces : \A j \in spaces : j <= i
                     ELSE start + chunk_size
          IN  /\ chunker'.start = (IF end < Len(text) THEN end - chunker.overlap
                                   ELSE Len(text))
              /\ Len(chunker'.chunks) > Len(chunker.chunks) =>
                     chunker'.chunks[Len(chunker'.chunks)].end_pos = end]_vars

(***************************************************************************)
(* C29: when an upload has been chunked and add_documents has returned     *)
(* True for its chunks, every chunk is an entry of the collection whose    *)
(* document is the chunk's text and whose metadata names the uploaded      *)
(* file.                                                                   *)
(***************************************************************************)
StoredAs(chunk, item) ==
    /\ item.document = chunk.text
    /\ "source_file" \in DOMAIN item.metadata
    /\ item.metadata.source_file = chunk.source_file
C29_UploadedChunksStored ==
    (Ingested(upload) /\ upload.chunks # <<>> /\ AddSucceeded) =>
        \A i \in 1..Len(upload.chunks) :
            \E k \in 1..Len(collection.items) :
                StoredAs(upload.chunks[i], collection.items[k])

(***************************************************************************)
(* C30: every chunk has 0 <= start_pos < end_pos <= len(text), its text is *)
(* text[start_pos:end_pos] without the whitespace at its ends, and the     *)
(* chunk_id of the k-th chunk is k.                                        *)
(***************************************************************************)
C30_OffsetsInsideText ==
    chunker.pc \in {"loop", "done"} =>
        \A k \in 1..Len(chunker.chunks) :
            LET c == chunker.chunks[k]
            IN  /\ 0 <= c.start_pos
                /\ c.start_pos < c.end_pos
                /\ c.end_pos <= Len(chunker.text)
                /\ c.text = Strip(SubSeq(chunker.text, c.start_pos + 1, c.end_pos))
                /\ c.chunk_id = k

=============================================================================
